---- MODULE Spec2Model ----
(***************************************************************************)
(* geonames/api_url.py: class APIUrl, a builder of request URLs for the     *)
(* GeoNames web services.  One instance is constructed by __init__ and its  *)
(* endpoint methods are then called in any order; every method returns a    *)
(* URL or raises.  Python strings are modelled as sequences of one-         *)
(* character strings, so that prefixes, str(), upper() and urlencode() are   *)
(* computed character by character.                                         *)
(***************************************************************************)
EXTENDS Integers, Sequences, FiniteSets, TLC

VARIABLES
    pc,          \* "new": before __init__; "failed": __init__ raised;
                 \* "idle": constructed, no call in progress; "returned": a call ended
    init_args,   \* the arguments given to __init__
    instance,    \* the APIUrl object's fields: username, _base_url, default_output_format
    method,      \* the endpoint method of the last call
    args,        \* its arguments
    result,      \* its outcome: the exception raised, or the URL returned
    ncalls       \* the number of endpoint calls made on the instance so far

vars == <<pc, init_args, instance, method, args, result, ncalls>>

\* ---------------------------------------------------------------- bounds

\* at most MaxCalls endpoint calls are made on the instance
MaxCalls == 2
\* int arguments (max_rows, geoname_id, radius, ...) range over 0..MaxInt
MaxInt == 1
\* list arguments (country of country_info and search) hold at most MaxListLen items
MaxListLen == 2

\* ------------------------------------------------------- string literals

\* Lit[s] is the Python string literal s as a sequence of characters.
Lit ==
    ("https://secure.geonames.org/" :> <<"h", "t", "t", "p", "s", ":", "/", "/", "s", "e", "c", "u", "r", "e", ".", "g", "e", "o", "n", "a", "m", "e", "s", ".", "o", "r", "g", "/">>)
    @@ ("http://api.geonames.org/" :> <<"h", "t", "t", "p", ":", "/", "/", "a", "p", "i", ".", "g", "e", "o", "n", "a", "m", "e", "s", ".", "o", "r", "g", "/">>)
    @@ ("JSON" :> <<"J", "S", "O", "N">>)
    @@ ("XML" :> <<"X", "M", "L">>)
    @@ ("CSV" :> <<"C", "S", "V">>)
    @@ ("?" :> <<"?">>)
    @@ ("username" :> <<"u", "s", "e", "r", "n", "a", "m", "e">>)
    @@ ("cities" :> <<"c", "i", "t", "i", "e", "s">>)
    @@ ("children" :> <<"c", "h", "i", "l", "d", "r", "e", "n">>)
    @@ ("neighbours" :> <<"n", "e", "i", "g", "h", "b", "o", "u", "r", "s">>)
    @@ ("hierarchy" :> <<"h", "i", "e", "r", "a", "r", "c", "h", "y">>)
    @@ ("siblings" :> <<"s", "i", "b", "l", "i", "n", "g", "s">>)
    @@ ("postalCodeLookup" :> <<"p", "o", "s", "t", "a", "l", "C", "o", "d", "e", "L", "o", "o", "k", "u", "p">>)
    @@ ("findNearbyWikipedia" :> <<"f", "i", "n", "d", "N", "e", "a", "r", "b", "y", "W", "i", "k", "i", "p", "e", "d", "i", "a">>)
    @@ ("wikipediaSearch" :> <<"w", "i", "k", "i", "p", "e", "d", "i", "a", "S", "e", "a", "r", "c", "h">>)
    @@ ("wikipediaBoundingBox" :> <<"w", "i", "k", "i", "p", "e", "d", "i", "a", "B", "o", "u", "n", "d", "i", "n", "g", "B", "o", "x">>)
    @@ ("earthquakes" :> <<"e", "a", "r", "t", "h", "q", "u", "a", "k", "e", "s">>)
    @@ ("weather" :> <<"w", "e", "a", "t", "h", "e", "r">>)
    @@ ("weatherIcao" :> <<"w", "e", "a", "t", "h", "e", "r", "I", "c", "a", "o">>)
    @@ ("findNearByWeather" :> <<"f", "i", "n", "d", "N", "e", "a", "r", "B", "y", "W", "e", "a", "t", "h", "e", "r">>)
    @@ ("countryInfo" :> <<"c", "o", "u", "n", "t", "r", "y", "I", "n", "f", "o">>)
    @@ ("ocean" :> <<"o", "c", "e", "a", "n">>)
    @@ ("timezone" :> <<"t", "i", "m", "e", "z", "o", "n", "e">>)
    @@ ("search?" :> <<"s", "e", "a", "r", "c", "h", "?">>)
    @@ ("q" :> <<"q">>)
    @@ ("name" :> <<"n", "a", "m", "e">>)
    @@ ("name_equals" :> <<"n", "a", "m", "e", "_", "e", "q", "u", "a", "l", "s">>)
    @@ ("name_startsWith" :> <<"n", "a", "m", "e", "_", "s", "t", "a", "r", "t", "s", "W", "i", "t", "h">>)
    @@ ("maxRows" :> <<"m", "a", "x", "R", "o", "w", "s">>)
    @@ ("startRow" :> <<"s", "t", "a", "r", "t", "R", "o", "w">>)
    @@ ("country" :> <<"c", "o", "u", "n", "t", "r", "y">>)
    @@ ("countryBias" :> <<"c", "o", "u", "n", "t", "r", "y", "B", "i", "a", "s">>)
    @@ ("continentCode" :> <<"c", "o", "n", "t", "i", "n", "e", "n", "t", "C", "o", "d", "e">>)
    @@ ("adminCode1" :> <<"a", "d", "m", "i", "n", "C", "o", "d", "e", "1">>)
    @@ ("adminCode2" :> <<"a", "d", "m", "i", "n", "C", "o", "d", "e", "2">>)
    @@ ("adminCode3" :> <<"a", "d", "m", "i", "n", "C", "o", "d", "e", "3">>)
    @@ ("featureClass" :> <<"f", "e", "a", "t", "u", "r", "e", "C", "l", "a", "s", "s">>)
    @@ ("featureCode" :> <<"f", "e", "a", "t", "u", "r", "e", "C", "o", "d", "e">>)
    @@ ("lang" :> <<"l", "a", "n", "g">>)
    @@ ("style" :> <<"s", "t", "y", "l", "e">>)
    @@ ("isNameRequired" :> <<"i", "s", "N", "a", "m", "e", "R", "e", "q", "u", "i", "r", "e", "d">>)
    @@ ("tag" :> <<"t", "a", "g">>)
    @@ ("operator" :> <<"o", "p", "e", "r", "a", "t", "o", "r">>)
    @@ ("charset" :> <<"c", "h", "a", "r", "s", "e", "t">>)
    @@ ("fuzzy" :> <<"f", "u", "z", "z", "y">>)
    @@ ("north" :> <<"n", "o", "r", "t", "h">>)
    @@ ("east" :> <<"e", "a", "s", "t">>)
    @@ ("south" :> <<"s", "o", "u", "t", "h">>)
    @@ ("west" :> <<"w", "e", "s", "t">>)
    @@ ("searchlang" :> <<"s", "e", "a", "r", "c", "h", "l", "a", "n", "g">>)
    @@ ("orderby" :> <<"o", "r", "d", "e", "r", "b", "y">>)
    @@ ("inclBbox" :> <<"i", "n", "c", "l", "B", "b", "o", "x">>)
    @@ ("type" :> <<"t", "y", "p", "e">>)
    @@ ("geonameId" :> <<"g", "e", "o", "n", "a", "m", "e", "I", "d">>)
    @@ ("postalcode" :> <<"p", "o", "s", "t", "a", "l", "c", "o", "d", "e">>)
    @@ ("lat" :> <<"l", "a", "t">>)
    @@ ("lng" :> <<"l", "n", "g">>)
    @@ ("radius" :> <<"r", "a", "d", "i", "u", "s">>)
    @@ ("title" :> <<"t", "i", "t", "l", "e">>)
    @@ ("minMagnitude" :> <<"m", "i", "n", "M", "a", "g", "n", "i", "t", "u", "d", "e">>)
    @@ ("ICAO" :> <<"I", "C", "A", "O">>)
    @@ ("date" :> <<"d", "a", "t", "e">>)
    @@ ("True" :> <<"T", "r", "u", "e">>)
    @@ ("False" :> <<"F", "a", "l", "s", "e">>)
    @@ ("json" :> <<"j", "s", "o", "n">>)
    @@ ("en" :> <<"e", "n">>)
    @@ ("DE" :> <<"D", "E">>)
    @@ ("NL" :> <<"N", "L">>)
    @@ ("a" :> <<"a">>)
    @@ ("a b" :> <<"a", " ", "b">>)
    @@ ("Düsseldorf" :> <<"D", "ü", "s", "s", "e", "l", "d", "o", "r", "f">>)
    @@ ("40545" :> <<"4", "0", "5", "4", "5">>)
    @@ ("tourism" :> <<"t", "o", "u", "r", "i", "s", "m">>)
    @@ ("EHAM" :> <<"E", "H", "A", "M">>)
    @@ ("2017-07-07" :> <<"2", "0", "1", "7", "-", "0", "7", "-", "0", "7">>)
    @@ ("x&y=z?" :> <<"x", "&", "y", "=", "z", "?">>)
    @@ ("API_KEY" :> <<"A", "P", "I", "_", "K", "E", "Y">>)

Digits == <<"0", "1", "2", "3", "4", "5", "6", "7", "8", "9">>
HexDigits == <<"0", "1", "2", "3", "4", "5", "6", "7", "8", "9", "A", "B", "C", "D", "E", "F">>
LowerCase == <<"a", "b", "c", "d", "e", "f", "g", "h", "i", "j", "k", "l", "m",
               "n", "o", "p", "q", "r", "s", "t", "u", "v", "w", "x", "y", "z">>
UpperCase == <<"A", "B", "C", "D", "E", "F", "G", "H", "I", "J", "K", "L", "M",
               "N", "O", "P", "Q", "R", "S", "T", "U", "V", "W", "X", "Y", "Z">>

Range(s) == {s[i] : i \in 1..Len(s)}

\* -------------------------------------------------------- Python values

None == [type |-> "NoneType"]
PyBool(b) == [type |-> "bool", b |-> b]
PyInt(i) == [type |-> "int", i |-> i]
\* a float with one decimal, held in tenths: PyFloat(441) is 44.1
PyFloat(t) == [type |-> "float", tenths |-> t]
PyStr(s) == [type |-> "str", s |-> s]
PyList(items) == [type |-> "list", items |-> items]
PyDate(y, m, d) == [type |-> "date", y |-> y, m |-> m, d |-> d]
\* datetime.datetime is a subclass of datetime.date; microsecond is 0
PyDateTime(y, m, d, hh, mm, ss) ==
    [type |-> "datetime", y |-> y, m |-> m, d |-> d, hh |-> hh, mm |-> mm, ss |-> ss]

\* bool(value), as `assert value`, `if value:`, any() and all() take it
truthy(v) ==
    CASE v.type = "NoneType" -> FALSE
      [] v.type = "bool" -> v.b
      [] v.type = "int" -> v.i # 0
      [] v.type = "float" -> v.tenths # 0
      [] v.type = "str" -> Len(v.s) > 0
      [] v.type = "list" -> Len(v.items) > 0
      [] OTHER -> TRUE

\* `None in (...)`
None_in(vs) == \E i \in 1..Len(vs) : vs[i] = None

any(vs) == \E i \in 1..Len(vs) : truthy(vs[i])
all(vs) == \A i \in 1..Len(vs) : truthy(vs[i])

\* isinstance(value, str), isinstance(value, bool), isinstance(value, date)
isinstance_str(v) == v.type = "str"
isinstance_bool(v) == v.type = "bool"
isinstance_date(v) == v.type \in {"date", "datetime"}

RECURSIVE NatToStr(_)
NatToStr(n) ==
    IF n < 10 THEN <<Digits[n + 1]>>
    ELSE NatToStr(n \div 10) \o <<Digits[(n % 10) + 1]>>

IntToStr(n) == IF n < 0 THEN <<"-">> \o NatToStr(-n) ELSE NatToStr(n)

RECURSIVE ZeroPad(_, _)
ZeroPad(s, width) == IF Len(s) >= width THEN s ELSE ZeroPad(<<"0">> \o s, width)

\* date.strftime("%Y-%m-%d"); years are 1000..9999, where %Y gives four digits
strftime_Ymd(v) ==
    ZeroPad(NatToStr(v.y), 4) \o <<"-">> \o ZeroPad(NatToStr(v.m), 2)
        \o <<"-">> \o ZeroPad(NatToStr(v.d), 2)

\* repr() of a str without quotes, backslashes or control characters
repr_str(s) == <<"'">> \o s \o <<"'">>

\* ', '.join(repr(item) for item in items), the items being str
RECURSIVE repr_items(_)
repr_items(items) ==
    IF items = <<>> THEN <<>>
    ELSE IF Len(items) = 1 THEN repr_str(Head(items).s)
    ELSE repr_str(Head(items).s) \o <<",", " ">> \o repr_items(Tail(items))

\* str(value)
py_str(v) ==
    CASE v.type = "NoneType" -> <<"N", "o", "n", "e">>
      [] v.type = "bool" -> IF v.b THEN Lit["True"] ELSE Lit["False"]
      [] v.type = "int" -> IntToStr(v.i)
      [] v.type = "float" ->
            LET a == IF v.tenths < 0 THEN -v.tenths ELSE v.tenths
            IN  (IF v.tenths < 0 THEN <<"-">> ELSE <<>>)
                    \o NatToStr(a \div 10) \o <<".">> \o <<Digits[(a % 10) + 1]>>
      [] v.type = "str" -> v.s
      [] v.type = "list" -> <<"[">> \o repr_items(v.items) \o <<"]">>
      [] v.type = "date" -> strftime_Ymd(v)
      [] v.type = "datetime" ->
            strftime_Ymd(v) \o <<" ">> \o ZeroPad(NatToStr(v.hh), 2) \o <<":">>
                \o ZeroPad(NatToStr(v.mm), 2) \o <<":">> \o ZeroPad(NatToStr(v.ss), 2)

\* str.upper(), on the ASCII letters
upper(s) ==
    [i \in 1..Len(s) |->
        IF \E k \in 1..26 : LowerCase[k] = s[i]
        THEN UpperCase[CHOOSE k \in 1..26 : LowerCase[k] = s[i]]
        ELSE s[i]]

\* -------------------------------------------------- urllib.parse.urlencode

\* the characters quote() never escapes: letters, digits and _ . - ~
ALWAYS_SAFE == Range(LowerCase) \cup Range(UpperCase) \cup Range(Digits) \cup {"_", ".", "-", "~"}

\* ord(c), for the characters of the model that are not always safe
ord(c) ==
    CASE c = " " -> 32
      [] c = "%" -> 37
      [] c = "&" -> 38
      [] c = "+" -> 43
      [] c = "/" -> 47
      [] c = ":" -> 58
      [] c = "=" -> 61
      [] c = "?" -> 63
      [] c = "ü" -> 252

\* c.encode("utf-8"), as a sequence of byte values
utf8(c) ==
    LET n == ord(c)
    IN  IF n < 128 THEN <<n>>
        ELSE IF n < 2048 THEN <<192 + (n \div 64), 128 + (n % 64)>>
        ELSE <<224 + (n \div 4096), 128 + ((n \div 64) % 64), 128 + (n % 64)>>

\* '%{:02X}'.format(byte)
percent(b) == <<"%", HexDigits[(b \div 16) + 1], HexDigits[(b % 16) + 1]>>

RECURSIVE percent_bytes(_)
percent_bytes(bs) ==
    IF bs = <<>> THEN <<>> ELSE percent(Head(bs)) \o percent_bytes(Tail(bs))

\* a quote_plus that escapes nothing but the space
RECURSIVE quote_plus_unescaped(_)
quote_plus_unescaped(s) ==
    IF s = <<>> THEN <<>>
    ELSE (IF Head(s) = " " THEN <<"+">> ELSE <<Head(s)>>) \o quote_plus_unescaped(Tail(s))

\* quote_plus(s, safe='', encoding='utf-8'): a space becomes "+", an always-safe
\* character stays, any other character becomes the %XX of its UTF-8 bytes
RECURSIVE quote_plus(_)
quote_plus(s) ==
    IF s = <<>> THEN <<>>
    ELSE LET c == Head(s)
         IN  (IF c = " " THEN <<"+">>
              ELSE IF c \in ALWAYS_SAFE THEN <<c>>
              ELSE percent_bytes(utf8(c))) \o quote_plus(Tail(s))

\* urlencode(keys, encoding="utf-8") of a list of (key, value) pairs of str:
\* '&'.join(quote_plus(k) + '=' + quote_plus(v))
RECURSIVE urlencode(_)
urlencode(keys) ==
    IF keys = <<>> THEN <<>>
    ELSE LET kv == quote_plus(Head(keys)[1]) \o <<"=">> \o quote_plus(Head(keys)[2])
         IN  IF Len(keys) = 1 THEN kv ELSE kv \o <<"&">> \o urlencode(Tail(keys))

\* ------------------------------------------------------ outcomes of a call

NoUrl == <<>>
\* the call ended by raising exception e; self is the object as the call left it
Raise(e, self) == [exc |-> e, url |-> NoUrl, keys |-> <<>>, self |-> self]
\* the call returned url, built from the pair list keys
Return(url, keys, self) == [exc |-> "none", url |-> url, keys |-> keys, self |-> self]

\* ---------------------------------------------------------- private methods

\* APIUrl._create_base_url with its test inverted
_create_base_url_inverted(secure) ==
    IF truthy(secure) THEN Lit["http://api.geonames.org/"]
    ELSE Lit["https://secure.geonames.org/"]

\* APIUrl._create_base_url
_create_base_url(secure) ==
    IF truthy(secure) THEN Lit["https://secure.geonames.org/"]
    ELSE Lit["http://api.geonames.org/"]

\* additional_output_formats as the list of upper-cased strings the code makes of it
upper_formats(additional_output_formats) ==
    IF isinstance_str(additional_output_formats)
    THEN <<upper(additional_output_formats.s)>>
    ELSE [i \in 1..Len(additional_output_formats.items) |->
              upper(additional_output_formats.items[i].s)]

\* APIUrl._create_bare_end_point keeping the base URL of the call in the object
\* (self._base_url = self._create_base_url(secure))
_create_bare_end_point_keeping(self, secure, end_point, output_format, additional_output_formats) ==
    LET kept == IF truthy(secure)
                THEN [self EXCEPT !._base_url = _create_base_url(secure)]
                ELSE self
        url == kept._base_url \o end_point
        keys == << <<Lit["username"], self.username>> >>
    IN  IF truthy(output_format)
        THEN IF ~isinstance_str(output_format)
             THEN Raise("AttributeError", kept)
             ELSE LET u == upper(output_format.s)
                      url_json == IF u = Lit["JSON"] THEN url \o Lit["JSON"] ELSE url
                  IN  IF u = Lit["CSV"]
                      THEN IF additional_output_formats = None
                           THEN Raise("TypeError", kept)
                           ELSE IF u \in Range(upper_formats(additional_output_formats))
                                THEN Return(url_json \o Lit["CSV"] \o Lit["?"], keys, kept)
                                ELSE Return(url_json \o Lit["?"], keys, kept)
                      ELSE Return(url_json \o Lit["?"], keys, kept)
        ELSE IF self.default_output_format = Lit["JSON"]
             THEN Return(url \o Lit["JSON"] \o Lit["?"], keys, kept)
             ELSE Return(url \o Lit["?"], keys, kept)

\* APIUrl._create_bare_end_point: the URL up to and including "?", and the pair
\* list holding the username.  It assigns no field of self.
_create_bare_end_point(self, secure, end_point, output_format, additional_output_formats) ==
    LET base_url == IF truthy(secure) THEN _create_base_url(secure) ELSE self._base_url
        url == base_url \o end_point
        keys == << <<Lit["username"], self.username>> >>
    IN  IF truthy(output_format)
        THEN IF ~isinstance_str(output_format)
             THEN Raise("AttributeError", self)    \* output_format.upper()
             ELSE LET u == upper(output_format.s)
                      url_json == IF u = Lit["JSON"] THEN url \o Lit["JSON"] ELSE url
                  IN  IF u = Lit["CSV"]
                      THEN IF additional_output_formats = None
                           THEN Raise("TypeError", self)    \* "CSV" in None
                           ELSE IF u \in Range(upper_formats(additional_output_formats))
                                THEN Return(url_json \o Lit["CSV"] \o Lit["?"], keys, self)
                                ELSE Return(url_json \o Lit["?"], keys, self)
                      ELSE Return(url_json \o Lit["?"], keys, self)
        ELSE IF self.default_output_format = Lit["JSON"]
             THEN Return(url \o Lit["JSON"] \o Lit["?"], keys, self)
             ELSE Return(url \o Lit["?"], keys, self)

\* APIUrl._add_key_value testing `if value:` instead of `if value is not None:`
_add_key_value_if_truthy(keys, key, value) ==
    IF truthy(value) THEN Append(keys, <<key, py_str(value)>>) ELSE keys

\* APIUrl._add_key_value: keys with (key, str(value)) appended, unless value is None
_add_key_value(keys, key, value) ==
    IF value # None THEN Append(keys, <<key, py_str(value)>>) ELSE keys

\* APIUrl._add_date, with its default key 'date'
_add_date(keys, date_to_add) ==
    IF isinstance_date(date_to_add)
    THEN _add_key_value(keys, Lit["date"], PyStr(strftime_Ymd(date_to_add)))
    ELSE _add_key_value(keys, Lit["date"], date_to_add)

\* `for c in country: self._add_key_value(keys, key, c)` over a list of items
RECURSIVE add_each(_, _, _)
add_each(keys, key, items) ==
    IF items = <<>> THEN keys
    ELSE add_each(_add_key_value(keys, key, Head(items)), key, Tail(items))

\* the str-or-list arguments (country, feature_class, feature_code): a str is
\* wrapped into a one-item list, then every item is added under the same key
add_str_or_list(keys, key, value) ==
    IF value = None THEN keys
    ELSE IF isinstance_str(value) THEN add_each(keys, key, <<value>>)
    ELSE add_each(keys, key, value.items)

\* the bounding box of search with every given edge added on its own
add_bounding_box_each(keys, north, east, south, west) ==
    LET k1 == _add_key_value(keys, Lit["north"], north)
        k2 == _add_key_value(k1, Lit["east"], east)
        k3 == _add_key_value(k2, Lit["south"], south)
    IN  _add_key_value(k3, Lit["west"], west)

\* the bounding box of search: all four edges are added, or none
add_bounding_box(keys, north, east, south, west) ==
    IF ~None_in(<<north, east, south, west>>)
    THEN LET k1 == _add_key_value(keys, Lit["north"], north)
             k2 == _add_key_value(k1, Lit["east"], east)
             k3 == _add_key_value(k2, Lit["south"], south)
         IN  _add_key_value(k3, Lit["west"], west)
    ELSE keys

\* ------------------------------------------------------------- constructor

NoInstance == [type |-> "NoInstance"]

\* an __init__ that does not check default_output_format
__init___any_format(username, secure, default_output_format) ==
    IF ~isinstance_str(username) THEN Raise("AssertionError", NoInstance)
    ELSE IF ~isinstance_bool(secure) THEN Raise("AssertionError", NoInstance)
    ELSE Return(NoUrl, <<>>,
                [username |-> username.s,
                 _base_url |-> _create_base_url(secure),
                 default_output_format |-> default_output_format.s])

\* APIUrl.__init__
__init__(username, secure, default_output_format) ==
    IF ~isinstance_str(username) THEN Raise("AssertionError", NoInstance)
    ELSE IF ~isinstance_bool(secure) THEN Raise("AssertionError", NoInstance)
    ELSE IF default_output_format \notin {PyStr(Lit["JSON"]), PyStr(Lit["XML"])}
         THEN Raise("AssertionError", NoInstance)
    ELSE Return(NoUrl, <<>>,
                [username |-> username.s,
                 _base_url |-> _create_base_url(secure),
                 default_output_format |-> default_output_format.s])

\* --------------------------------------------------------- endpoint methods
\* Each takes the object and the record a of its arguments (one field per
\* parameter, None where the caller leaves the default).

\* APIUrl.search
search(self, a) ==
    LET base_url == IF truthy(a.secure) THEN _create_base_url(a.secure) ELSE self._base_url
        url == base_url \o Lit["search?"]
        k0 == << <<Lit["username"], self.username>> >>
        k1 == _add_key_value(k0, Lit["q"], a.q)
        k2 == _add_key_value(k1, Lit["name"], a.name)
        k3 == _add_key_value(k2, Lit["name_equals"], a.name_equals)
        k4 == _add_key_value(k3, Lit["name_startsWith"], a.name_starts_with)
        k5 == _add_key_value(k4, Lit["maxRows"], a.max_rows)
        k6 == _add_key_value(k5, Lit["startRow"], a.start_row)
        k7 == add_str_or_list(k6, Lit["country"], a.country)
        k8 == _add_key_value(k7, Lit["countryBias"], a.country_bias)
        k9 == _add_key_value(k8, Lit["continentCode"], a.continent_code)
        k10 == _add_key_value(k9, Lit["adminCode1"], a.admin_code1)
        k11 == _add_key_value(k10, Lit["adminCode2"], a.admin_code2)
        k12 == _add_key_value(k11, Lit["adminCode3"], a.admin_code3)
        k13 == add_str_or_list(k12, Lit["featureClass"], a.feature_class)
        k14 == add_str_or_list(k13, Lit["featureCode"], a.feature_code)
        k15 == _add_key_value(k14, Lit["cities"], a.cities)
        k16 == _add_key_value(k15, Lit["lang"], a.language)
        k17 == _add_key_value(k16, Lit["style"], a.style)
        k18 == _add_key_value(k17, Lit["isNameRequired"], a.is_name_required)
        k19 == _add_key_value(k18, Lit["tag"], a.tag)
        k20 == _add_key_value(k19, Lit["operator"], a.operator)
        k21 == _add_key_value(k20, Lit["charset"], a.charset)
        k22 == _add_key_value(k21, Lit["fuzzy"], a.fuzzy)
        k23 == add_bounding_box(k22, a.north, a.east, a.south, a.west)
        k24 == _add_key_value(k23, Lit["searchlang"], a.search_language)
        k25 == _add_key_value(k24, Lit["orderby"], a.order_by)
        k26 == _add_key_value(k25, Lit["inclBbox"], a.include_bbox)
        output_format == IF a.output_format = None
                         THEN PyStr(self.default_output_format)
                         ELSE a.output_format
        keys == _add_key_value(k26, Lit["type"], output_format)
    IN  IF ~any(<<a.q, a.name, a.name_equals>>) THEN Raise("AssertionError", self)
        ELSE Return(url \o urlencode(keys), keys, self)

\* APIUrl.cities_and_place_names_bounding_box
cities_and_place_names_bounding_box(self, a) ==
    LET ep == _create_bare_end_point(self, a.secure, Lit["cities"], a.output_format, None)
        k1 == _add_key_value(ep.keys, Lit["north"], a.north)
        k2 == _add_key_value(k1, Lit["east"], a.east)
        k3 == _add_key_value(k2, Lit["south"], a.south)
        k4 == _add_key_value(k3, Lit["west"], a.west)
        k5 == _add_key_value(k4, Lit["lang"], a.language)
        keys == _add_key_value(k5, Lit["maxRows"], a.max_rows)
    IN  IF ep.exc # "none" THEN ep
        ELSE IF None_in(<<a.north, a.east, a.south, a.west>>)
             THEN Raise("AssertionError", ep.self)
        ELSE Return(ep.url \o urlencode(keys), keys, ep.self)

\* APIUrl.children
children(self, a) ==
    LET ep == _create_bare_end_point(self, a.secure, Lit["children"], a.output_format, None)
        k1 == _add_key_value(ep.keys, Lit["geonameId"], a.geoname_id)
        k2 == _add_key_value(k1, Lit["hierarchy"], a.hierarchy)
        keys == _add_key_value(k2, Lit["maxRows"], a.max_rows)
    IN  IF ep.exc # "none" THEN ep
        ELSE IF ~truthy(a.geoname_id) THEN Raise("AssertionError", ep.self)
        ELSE Return(ep.url \o urlencode(keys), keys, ep.self)

\* APIUrl.neighbours
neighbours(self, a) ==
    LET ep == _create_bare_end_point(self, a.secure, Lit["neighbours"], a.output_format, None)
        k1 == _add_key_value(ep.keys, Lit["geonameId"], a.geoname_id)
        keys == _add_key_value(k1, Lit["country"], a.country)
    IN  IF ep.exc # "none" THEN ep
        ELSE IF ~(any(<<a.geoname_id, a.country>>) /\ ~all(<<a.geoname_id, a.country>>))
             THEN Raise("AssertionError", ep.self)
        ELSE Return(ep.url \o urlencode(keys), keys, ep.self)

\* APIUrl.hierarchy
hierarchy(self, a) ==
    LET ep == _create_bare_end_point(self, a.secure, Lit["hierarchy"], a.output_format, None)
        keys == _add_key_value(ep.keys, Lit["geonameId"], a.geoname_id)
    IN  IF ep.exc # "none" THEN ep
        ELSE IF ~truthy(a.geoname_id) THEN Raise("AssertionError", ep.self)
        ELSE Return(ep.url \o urlencode(keys), keys, ep.self)

\* APIUrl.siblings
siblings(self, a) ==
    LET ep == _create_bare_end_point(self, a.secure, Lit["siblings"], a.output_format, None)
        keys == _add_key_value(ep.keys, Lit["geonameId"], a.geoname_id)
    IN  IF ep.exc # "none" THEN ep
        ELSE IF ~truthy(a.geoname_id) THEN Raise("AssertionError", ep.self)
        ELSE Return(ep.url \o urlencode(keys), keys, ep.self)

\* APIUrl.postal_code_to_place_name
postal_code_to_place_name(self, a) ==
    LET ep == _create_bare_end_point(self, a.secure, Lit["postalCodeLookup"], a.output_format, None)
        k1 == _add_key_value(ep.keys, Lit["postalcode"], a.postal_code)
        k2 == _add_key_value(k1, Lit["country"], a.country)
        k3 == _add_key_value(k2, Lit["charset"], a.charset)
        keys == _add_key_value(k3, Lit["maxRows"], a.max_rows)
    IN  IF ep.exc # "none" THEN ep
        ELSE IF ~truthy(a.postal_code) THEN Raise("AssertionError", ep.self)
        ELSE Return(ep.url \o urlencode(keys), keys, ep.self)

\* APIUrl.wikipedia_find_nearby
wikipedia_find_nearby(self, a) ==
    LET ep == _create_bare_end_point(self, a.secure, Lit["findNearbyWikipedia"], a.output_format, None)
        k1 == _add_key_value(ep.keys, Lit["lat"], a.latitude)
        k2 == _add_key_value(k1, Lit["lng"], a.longitude)
        k3 == _add_key_value(k2, Lit["postalcode"], a.postal_code)
        k4 == _add_key_value(k3, Lit["radius"], a.radius)
        k5 == _add_key_value(k4, Lit["lang"], a.language)
        k6 == _add_key_value(k5, Lit["maxRows"], a.max_rows)
        keys == _add_key_value(k6, Lit["country"], a.country)
        required == IF a.postal_code = None
                    THEN a.latitude # None /\ a.longitude # None
                    ELSE a.latitude = None \/ a.longitude = None
    IN  IF ep.exc # "none" THEN ep
        ELSE IF ~required THEN Raise("AssertionError", ep.self)
        ELSE Return(ep.url \o urlencode(keys), keys, ep.self)

\* APIUrl.wikipedia_fulltext_search
wikipedia_fulltext_search(self, a) ==
    LET ep == _create_bare_end_point(self, a.secure, Lit["wikipediaSearch"], a.output_format, None)
        k1 == _add_key_value(ep.keys, Lit["q"], a.q)
        k2 == _add_key_value(k1, Lit["title"], a.title)
        k3 == _add_key_value(k2, Lit["lang"], a.language)
        keys == _add_key_value(k3, Lit["maxRows"], a.max_rows)
    IN  IF ep.exc # "none" THEN ep
        ELSE IF ~truthy(a.q) THEN Raise("AssertionError", ep.self)
        ELSE Return(ep.url \o urlencode(keys), keys, ep.self)

\* APIUrl.wikipedia_bounding_box
wikipedia_bounding_box(self, a) ==
    LET ep == _create_bare_end_point(self, a.secure, Lit["wikipediaBoundingBox"], a.output_format, None)
        k1 == _add_key_value(ep.keys, Lit["north"], a.north)
        k2 == _add_key_value(k1, Lit["east"], a.east)
        k3 == _add_key_value(k2, Lit["south"], a.south)
        k4 == _add_key_value(k3, Lit["west"], a.west)
        k5 == _add_key_value(k4, Lit["lang"], a.language)
        keys == _add_key_value(k5, Lit["maxRows"], a.max_rows)
    IN  IF ep.exc # "none" THEN ep
        ELSE IF ~all(<<a.north, a.east, a.south, a.west>>)
             THEN Raise("AssertionError", ep.self)
        ELSE Return(ep.url \o urlencode(keys), keys, ep.self)

\* APIUrl.earthquakes_bounding_box
earthquakes_bounding_box(self, a) ==
    LET ep == _create_bare_end_point(self, a.secure, Lit["earthquakes"], a.output_format, None)
        k1 == _add_key_value(ep.keys, Lit["north"], a.north)
        k2 == _add_key_value(k1, Lit["east"], a.east)
        k3 == _add_key_value(k2, Lit["south"], a.south)
        k4 == _add_key_value(k3, Lit["west"], a.west)
        k5 == _add_key_value(k4, Lit["minMagnitude"], a.min_magnitude)
        k6 == _add_key_value(k5, Lit["maxRows"], a.max_rows)
        keys == _add_date(k6, a.up_to_date)
    IN  IF ep.exc # "none" THEN ep
        ELSE IF ~all(<<a.north, a.east, a.south, a.west>>)
             THEN Raise("AssertionError", ep.self)
        ELSE Return(ep.url \o urlencode(keys), keys, ep.self)

\* APIUrl.weather_station_bounding_box
weather_station_bounding_box(self, a) ==
    LET ep == _create_bare_end_point(self, a.secure, Lit["weather"], a.output_format, None)
        k1 == _add_key_value(ep.keys, Lit["north"], a.north)
        k2 == _add_key_value(k1, Lit["east"], a.east)
        k3 == _add_key_value(k2, Lit["south"], a.south)
        k4 == _add_key_value(k3, Lit["west"], a.west)
        keys == _add_key_value(k4, Lit["maxRows"], a.max_rows)
    IN  IF ep.exc # "none" THEN ep
        ELSE IF ~all(<<a.north, a.east, a.south, a.west>>)
             THEN Raise("AssertionError", ep.self)
        ELSE Return(ep.url \o urlencode(keys), keys, ep.self)

\* APIUrl.weather_station_icao
weather_station_icao(self, a) ==
    LET ep == _create_bare_end_point(self, a.secure, Lit["weatherIcao"], a.output_format, None)
        keys == _add_key_value(ep.keys, Lit["ICAO"], a.icao)
    IN  IF ep.exc # "none" THEN ep
        ELSE IF ~truthy(a.icao) THEN Raise("AssertionError", ep.self)
        ELSE Return(ep.url \o urlencode(keys), keys, ep.self)

\* APIUrl.weather_station_find_nearby
weather_station_find_nearby(self, a) ==
    LET ep == _create_bare_end_point(self, a.secure, Lit["findNearByWeather"], a.output_format, None)
        k1 == _add_key_value(ep.keys, Lit["lat"], a.latitude)
        k2 == _add_key_value(k1, Lit["lng"], a.longitude)
        keys == _add_key_value(k2, Lit["radius"], a.radius)
    IN  IF ep.exc # "none" THEN ep
        ELSE IF ~(truthy(a.latitude) \/ truthy(a.longitude))
             THEN Raise("AssertionError", ep.self)
        ELSE Return(ep.url \o urlencode(keys), keys, ep.self)

\* APIUrl.country_info
country_info(self, a) ==
    LET ep == _create_bare_end_point(self, a.secure, Lit["countryInfo"], a.output_format,
                                     PyStr(Lit["CSV"]))
        k1 == add_str_or_list(ep.keys, Lit["country"], a.country)
        keys == _add_key_value(k1, Lit["lang"], a.language)
    IN  IF ep.exc # "none" THEN ep
        ELSE Return(ep.url \o urlencode(keys), keys, ep.self)

\* APIUrl.ocean
ocean(self, a) ==
    LET ep == _create_bare_end_point(self, a.secure, Lit["ocean"], a.output_format, None)
        k1 == _add_key_value(ep.keys, Lit["lat"], a.latitude)
        k2 == _add_key_value(k1, Lit["lng"], a.longitude)
        keys == _add_key_value(k2, Lit["radius"], a.radius)
    IN  IF ep.exc # "none" THEN ep
        ELSE IF ~(truthy(a.latitude) \/ truthy(a.longitude))
             THEN Raise("AssertionError", ep.self)
        ELSE Return(ep.url \o urlencode(keys), keys, ep.self)

\* APIUrl.timezone
timezone(self, a) ==
    LET ep == _create_bare_end_point(self, a.secure, Lit["timezone"], a.output_format, None)
        k1 == _add_key_value(ep.keys, Lit["lat"], a.latitude)
        k2 == _add_key_value(k1, Lit["lng"], a.longitude)
        k3 == _add_key_value(k2, Lit["radius"], a.radius)
        k4 == _add_key_value(k3, Lit["lang"], a.language)
        keys == _add_date(k4, a.sunrise_sunset_date)
    IN  IF ep.exc # "none" THEN ep
        ELSE IF ~(truthy(a.latitude) \/ truthy(a.longitude))
             THEN Raise("AssertionError", ep.self)
        ELSE Return(ep.url \o urlencode(keys), keys, ep.self)

\* ------------------------------------------------------------ argument sets
\* The values the calls are made with: for every parameter its default None,
\* values of its documented type and, where a check reads it, falsy values.

SecureArgs == {None, PyBool(TRUE), PyBool(FALSE)}
FormatArgs == {None, PyStr(Lit["json"]), PyStr(Lit["XML"]), PyStr(Lit["CSV"])}
IntArgs == {None} \cup {PyInt(i) : i \in 0..MaxInt}
Latitudes == {None, PyFloat(0), PyFloat(441)}
Longitudes == {None, PyFloat(0), PyFloat(-224)}
LanguageArgs == {None, PyStr(Lit["en"])}
TextArgs == {None, PyStr(<<>>), PyStr(Lit["a b"])}
QueryArgs == TextArgs \cup {PyStr(Lit["Düsseldorf"]), PyStr(Lit["x&y=z?"])}
CountryCodes == {PyStr(Lit["DE"]), PyStr(Lit["NL"])}
CountryArgs == {None, PyStr(<<>>), PyStr(Lit["DE"])}
PostalCodeArgs == {None, PyInt(0), PyStr(<<>>), PyStr(Lit["40545"])}
DateArgs == {None, PyStr(Lit["2017-07-07"]), PyDate(2017, 7, 7), PyDateTime(2017, 7, 7, 12, 30, 0)}

\* the lists of at most n country codes
RECURSIVE ListsUpTo(_)
ListsUpTo(n) ==
    IF n = 0 THEN {<<>>}
    ELSE ListsUpTo(n - 1) \cup
         {Append(l, c) : l \in {m \in ListsUpTo(n - 1) : Len(m) = n - 1}, c \in CountryCodes}

CountryListArgs == CountryArgs \cup {PyList(l) : l \in ListsUpTo(MaxListLen)}

BoundingBoxes == [north : Latitudes, east : Longitudes, south : Latitudes, west : Longitudes]

\* r with the fields of s added
Merge(r, s) == [f \in DOMAIN r \cup DOMAIN s |-> IF f \in DOMAIN s THEN s[f] ELSE r[f]]

\* every parameter of search at its default
search_defaults ==
    [q |-> None, name |-> None, name_equals |-> None, name_starts_with |-> None,
     max_rows |-> None, start_row |-> None, country |-> None, country_bias |-> None,
     continent_code |-> None, admin_code1 |-> None, admin_code2 |-> None,
     admin_code3 |-> None, feature_class |-> None, feature_code |-> None,
     cities |-> None, language |-> None, style |-> None, is_name_required |-> None,
     tag |-> None, operator |-> None, charset |-> None, fuzzy |-> None,
     north |-> None, east |-> None, south |-> None, west |-> None,
     search_language |-> None, order_by |-> None, include_bbox |-> None,
     secure |-> None, output_format |-> None]

\* search called with its search terms, a bounding box, secure and output_format
search_args_terms ==
    {Merge(search_defaults, t) :
        t \in [q : TextArgs, name : TextArgs, name_equals : TextArgs,
               north : {None, PyFloat(0)}, east : {None, PyFloat(0)},
               south : {None, PyFloat(0)}, west : {None, PyFloat(0)},
               secure : SecureArgs, output_format : FormatArgs]}

\* the values of the other parameters of search
search_options ==
    ({"name_starts_with", "country_bias", "continent_code", "admin_code1",
      "admin_code2", "admin_code3", "cities", "language", "style", "tag",
      "operator", "charset", "search_language", "order_by", "include_bbox"}
        \X {PyStr(<<>>), PyStr(Lit["a b"])})
    \cup ({"max_rows", "start_row"} \X (IntArgs \ {None}))
    \cup ({"country", "feature_class", "feature_code"} \X (CountryListArgs \ {None}))
    \cup ({"is_name_required"} \X {PyBool(FALSE), PyBool(TRUE)})
    \cup ({"fuzzy"} \X {PyFloat(0), PyFloat(5)})

\* search called with q and at most two of its other parameters
search_args_options ==
    {[[[search_defaults EXCEPT !.q = PyStr(Lit["a b"])]
            EXCEPT ![o1[1]] = o1[2]] EXCEPT ![o2[1]] = o2[2]] :
        o1 \in search_options, o2 \in search_options}

search_args == search_args_terms \cup search_args_options

cities_and_place_names_bounding_box_args ==
    {Merge(b, o) : b \in BoundingBoxes,
                   o \in [language : LanguageArgs, max_rows : IntArgs,
                          secure : SecureArgs, output_format : FormatArgs]}

children_args ==
    [geoname_id : IntArgs, hierarchy : {None, PyStr(Lit["tourism"])}, max_rows : IntArgs,
     secure : SecureArgs, output_format : FormatArgs]

neighbours_args ==
    [geoname_id : IntArgs, country : CountryArgs,
     secure : SecureArgs, output_format : FormatArgs]

hierarchy_args == [geoname_id : IntArgs, secure : SecureArgs, output_format : FormatArgs]

siblings_args == [geoname_id : IntArgs, secure : SecureArgs, output_format : FormatArgs]

postal_code_to_place_name_args ==
    [postal_code : PostalCodeArgs, country : CountryArgs, charset : TextArgs,
     max_rows : IntArgs, secure : SecureArgs, output_format : FormatArgs]

wikipedia_find_nearby_args ==
    [latitude : Latitudes, longitude : Longitudes, postal_code : PostalCodeArgs,
     radius : {None, PyInt(0)}, language : LanguageArgs, max_rows : {None, PyInt(0)},
     country : {None, PyStr(Lit["DE"])},
     secure : SecureArgs, output_format : FormatArgs]

wikipedia_fulltext_search_args ==
    [q : QueryArgs, title : QueryArgs, language : LanguageArgs, max_rows : IntArgs,
     secure : SecureArgs, output_format : FormatArgs]

wikipedia_bounding_box_args ==
    {Merge(b, o) : b \in BoundingBoxes,
                   o \in [language : LanguageArgs, max_rows : IntArgs,
                          secure : SecureArgs, output_format : FormatArgs]}

earthquakes_bounding_box_args ==
    {Merge(b, o) : b \in BoundingBoxes,
                   o \in [up_to_date : DateArgs, min_magnitude : {None, PyInt(0)},
                          max_rows : {None, PyInt(0)},
                          secure : SecureArgs, output_format : FormatArgs]}

weather_station_bounding_box_args ==
    {Merge(b, o) : b \in BoundingBoxes,
                   o \in [max_rows : IntArgs, secure : SecureArgs, output_format : FormatArgs]}

weather_station_icao_args ==
    [icao : {None, PyStr(<<>>), PyStr(Lit["EHAM"])},
     secure : SecureArgs, output_format : FormatArgs]

weather_station_find_nearby_args ==
    [latitude : Latitudes, longitude : Longitudes, radius : IntArgs,
     secure : SecureArgs, output_format : FormatArgs]

country_info_args ==
    [country : CountryListArgs, language : LanguageArgs,
     secure : SecureArgs, output_format : FormatArgs]

ocean_args ==
    [latitude : Latitudes, longitude : Longitudes, radius : IntArgs,
     secure : SecureArgs, output_format : FormatArgs]

timezone_args ==
    [latitude : Latitudes, longitude : Longitudes, radius : IntArgs,
     language : LanguageArgs, sunrise_sunset_date : DateArgs,
     secure : SecureArgs, output_format : FormatArgs]

\* the arguments __init__ is called with
InitArgs ==
    [username : {PyStr(Lit["API_KEY"]), PyInt(0)},
     secure : {PyBool(TRUE), PyBool(FALSE), None},
     default_output_format : {PyStr(Lit["JSON"]), PyStr(Lit["XML"]), PyStr(Lit["json"])}]

\* ------------------------------------------------------------------ actions

NoArgs == <<>>
NoResult == [exc |-> "none", url |-> NoUrl, keys |-> <<>>]

Init ==
    /\ pc = "new"
    /\ init_args \in InitArgs
    /\ instance = NoInstance
    /\ method = ""
    /\ args = NoArgs
    /\ result = NoResult
    /\ ncalls = 0

\* a = APIUrl(username, secure, default_output_format)
Construct ==
    /\ pc = "new"
    /\ LET r == __init__(init_args.username, init_args.secure, init_args.default_output_format)
       IN  /\ pc' = IF r.exc = "none" THEN "idle" ELSE "failed"
           /\ instance' = r.self
           /\ result' = [exc |-> r.exc, url |-> NoUrl, keys |-> <<>>]
    /\ method' = "__init__"
    /\ args' = init_args
    /\ UNCHANGED <<init_args, ncalls>>

\* the instance is constructed and its caller may make another call
CanCall == pc = "idle" /\ ncalls < MaxCalls

\* the call m(**a) on the instance ends with outcome r
Call(m, a, r) ==
    /\ pc' = "returned"
    /\ method' = m
    /\ args' = a
    /\ result' = [exc |-> r.exc, url |-> r.url, keys |-> r.keys]
    /\ instance' = r.self
    /\ ncalls' = ncalls + 1
    /\ UNCHANGED init_args

Call_search ==
    /\ CanCall
    /\ \E a \in search_args :
           Call("search", a, search(instance, a))
Call_cities_and_place_names_bounding_box ==
    /\ CanCall
    /\ \E a \in cities_and_place_names_bounding_box_args :
           Call("cities_and_place_names_bounding_box", a, cities_and_place_names_bounding_box(instance, a))
Call_children ==
    /\ CanCall
    /\ \E a \in children_args :
           Call("children", a, children(instance, a))
Call_neighbours ==
    /\ CanCall
    /\ \E a \in neighbours_args :
           Call("neighbours", a, neighbours(instance, a))
Call_hierarchy ==
    /\ CanCall
    /\ \E a \in hierarchy_args :
           Call("hierarchy", a, hierarchy(instance, a))
Call_siblings ==
    /\ CanCall
    /\ \E a \in siblings_args :
           Call("siblings", a, siblings(instance, a))
Call_postal_code_to_place_name ==
    /\ CanCall
    /\ \E a \in postal_code_to_place_name_args :
           Call("postal_code_to_place_name", a, postal_code_to_place_name(instance, a))
Call_wikipedia_find_nearby ==
    /\ CanCall
    /\ \E a \in wikipedia_find_nearby_args :
           Call("wikipedia_find_nearby", a, wikipedia_find_nearby(instance, a))
Call_wikipedia_fulltext_search ==
    /\ CanCall
    /\ \E a \in wikipedia_fulltext_search_args :
           Call("wikipedia_fulltext_search", a, wikipedia_fulltext_search(instance, a))
Call_wikipedia_bounding_box ==
    /\ CanCall
    /\ \E a \in wikipedia_bounding_box_args :
           Call("wikipedia_bounding_box", a, wikipedia_bounding_box(instance, a))
Call_earthquakes_bounding_box ==
    /\ CanCall
    /\ \E a \in earthquakes_bounding_box_args :
           Call("earthquakes_bounding_box", a, earthquakes_bounding_box(instance, a))
Call_weather_station_bounding_box ==
    /\ CanCall
    /\ \E a \in weather_station_bounding_box_args :
           Call("weather_station_bounding_box", a, weather_station_bounding_box(instance, a))
Call_weather_station_icao ==
    /\ CanCall
    /\ \E a \in weather_station_icao_args :
           Call("weather_station_icao", a, weather_station_icao(instance, a))
Call_weather_station_find_nearby ==
    /\ CanCall
    /\ \E a \in weather_station_find_nearby_args :
           Call("weather_station_find_nearby", a, weather_station_find_nearby(instance, a))
Call_country_info ==
    /\ CanCall
    /\ \E a \in country_info_args :
           Call("country_info", a, country_info(instance, a))
Call_ocean ==
    /\ CanCall
    /\ \E a \in ocean_args :
           Call("ocean", a, ocean(instance, a))
Call_timezone ==
    /\ CanCall
    /\ \E a \in timezone_args :
           Call("timezone", a, timezone(instance, a))

\* the caller takes the URL (or handles the exception) and goes on to its next call
CallerContinues ==
    /\ pc = "returned"
    /\ pc' = "idle"
    /\ method' = ""
    /\ args' = NoArgs
    /\ result' = NoResult
    /\ UNCHANGED <<init_args, instance, ncalls>>

Next ==
    \/ Construct
    \/ Call_search
    \/ Call_cities_and_place_names_bounding_box
    \/ Call_children
    \/ Call_neighbours
    \/ Call_hierarchy
    \/ Call_siblings
    \/ Call_postal_code_to_place_name
    \/ Call_wikipedia_find_nearby
    \/ Call_wikipedia_fulltext_search
    \/ Call_wikipedia_bounding_box
    \/ Call_earthquakes_bounding_box
    \/ Call_weather_station_bounding_box
    \/ Call_weather_station_icao
    \/ Call_weather_station_find_nearby
    \/ Call_country_info
    \/ Call_ocean
    \/ Call_timezone
    \/ CallerContinues

Spec == Init /\ [][Next]_vars


\* ------------------------------------------------- vocabulary of the claims

EndpointMethods ==
    {"search", "cities_and_place_names_bounding_box", "children", "neighbours",
     "hierarchy", "siblings", "postal_code_to_place_name", "wikipedia_find_nearby",
     "wikipedia_fulltext_search", "wikipedia_bounding_box", "earthquakes_bounding_box",
     "weather_station_bounding_box", "weather_station_icao",
     "weather_station_find_nearby", "country_info", "ocean", "timezone"}

\* a call of endpoint method m has ended
Called(m) == pc = "returned" /\ method = m
\* a call of endpoint method m has returned a URL
Returned(m) == Called(m) /\ result.exc = "none"
\* a call of some endpoint method has returned a URL
ReturnedUrl == pc = "returned" /\ method \in EndpointMethods /\ result.exc = "none"

\* the call was made with output_format left out or one of the values every
\* endpoint documents, 'JSON' and 'XML'
DocumentedFormat == args.output_format \in {None, PyStr(Lit["json"]), PyStr(Lit["XML"])}

StartsWith(s, prefix) == Len(s) >= Len(prefix) /\ SubSeq(s, 1, Len(prefix)) = prefix
Secure(url) == StartsWith(url, Lit["https://secure.geonames.org/"])
Insecure(url) == StartsWith(url, Lit["http://api.geonames.org/"])

\* the positions of key in a pair list
Positions(keys, key) == {i \in 1..Len(keys) : keys[i][1] = key}
HasKey(keys, key) == Positions(keys, key) # {}

\* the instance a fresh call of the constructor with the same arguments gives
FreshInstance ==
    __init__(init_args.username, init_args.secure, init_args.default_output_format).self

\* the outcome of endpoint method m called on self with arguments a
Invoke(m, self, a) ==
    CASE m = "search" -> search(self, a)
      [] m = "cities_and_place_names_bounding_box" -> cities_and_place_names_bounding_box(self, a)
      [] m = "children" -> children(self, a)
      [] m = "neighbours" -> neighbours(self, a)
      [] m = "hierarchy" -> hierarchy(self, a)
      [] m = "siblings" -> siblings(self, a)
      [] m = "postal_code_to_place_name" -> postal_code_to_place_name(self, a)
      [] m = "wikipedia_find_nearby" -> wikipedia_find_nearby(self, a)
      [] m = "wikipedia_fulltext_search" -> wikipedia_fulltext_search(self, a)
      [] m = "wikipedia_bounding_box" -> wikipedia_bounding_box(self, a)
      [] m = "earthquakes_bounding_box" -> earthquakes_bounding_box(self, a)
      [] m = "weather_station_bounding_box" -> weather_station_bounding_box(self, a)
      [] m = "weather_station_icao" -> weather_station_icao(self, a)
      [] m = "weather_station_find_nearby" -> weather_station_find_nearby(self, a)
      [] m = "country_info" -> country_info(self, a)
      [] m = "ocean" -> ocean(self, a)
      [] m = "timezone" -> timezone(self, a)

\* ------------------------------------------------------------------- claims

\* C1: the per-call secure argument overwrites the constructor's: every URL
\* returned by a call with secure=True starts with the https base, and every URL
\* returned by a call with secure=False starts with the http base, whatever
\* secure the instance was constructed with.
C1_SecureArgumentOverwrites ==
    ReturnedUrl =>
        /\ args.secure = PyBool(TRUE) => Secure(result.url)
        /\ args.secure = PyBool(FALSE) => Insecure(result.url)

\* C2: construction of URLs is stateless and deterministic: after any sequence
\* of calls, failed ones included, the instance's fields are those the
\* constructor set, and the outcome of a call is the outcome of the same call
\* made first on a freshly constructed instance of the same configuration.
C2_StatelessDeterministic ==
    pc \in {"idle", "returned"} =>
        /\ instance = FreshInstance
        /\ pc = "returned" =>
              LET first == Invoke(method, FreshInstance, args)
              IN  result.exc = first.exc /\ result.url = first.url

\* C2 witness: the second call made on an instance returned a URL
C2_Witness ==
    /\ ReturnedUrl
    /\ ncalls = 2
    /\ result.url # NoUrl

\* C3: a call that does not pass secure returns a URL that starts with the base
\* URL the constructor's secure flag selects, and every returned URL starts with
\* one of the two base URLs.
C3_BaseUrlFixed ==
    ReturnedUrl =>
        /\ args.secure = None =>
              /\ init_args.secure = PyBool(TRUE) => Secure(result.url)
              /\ init_args.secure = PyBool(FALSE) => Insecure(result.url)
        /\ Secure(result.url) \/ Insecure(result.url)

\* C3 witness: the second call on an instance constructed with secure=False,
\* made without secure, returned a URL of the http base
C3_Witness ==
    /\ ReturnedUrl
    /\ ncalls = 2
    /\ args.secure = None
    /\ init_args.secure = PyBool(FALSE)
    /\ Insecure(result.url)

\* The query parameters of every endpoint method other than search, in the order
\* in which the method adds them: <<parameter, key, kind>>.  kind "value" is a
\* parameter added as it is, "items" one that may be a list of values to add one
\* by one, "date" one that may be a date.
QueryParameters(m) ==
    CASE m = "cities_and_place_names_bounding_box" ->
            << <<"north", "north", "value">>, <<"east", "east", "value">>,
               <<"south", "south", "value">>, <<"west", "west", "value">>,
               <<"language", "lang", "value">>, <<"max_rows", "maxRows", "value">> >>
      [] m = "children" ->
            << <<"geoname_id", "geonameId", "value">>, <<"hierarchy", "hierarchy", "value">>,
               <<"max_rows", "maxRows", "value">> >>
      [] m = "neighbours" ->
            << <<"geoname_id", "geonameId", "value">>, <<"country", "country", "value">> >>
      [] m = "hierarchy" -> << <<"geoname_id", "geonameId", "value">> >>
      [] m = "siblings" -> << <<"geoname_id", "geonameId", "value">> >>
      [] m = "postal_code_to_place_name" ->
            << <<"postal_code", "postalcode", "value">>, <<"country", "country", "value">>,
               <<"charset", "charset", "value">>, <<"max_rows", "maxRows", "value">> >>
      [] m = "wikipedia_find_nearby" ->
            << <<"latitude", "lat", "value">>, <<"longitude", "lng", "value">>,
               <<"postal_code", "postalcode", "value">>, <<"radius", "radius", "value">>,
               <<"language", "lang", "value">>, <<"max_rows", "maxRows", "value">>,
               <<"country", "country", "value">> >>
      [] m = "wikipedia_fulltext_search" ->
            << <<"q", "q", "value">>, <<"title", "title", "value">>,
               <<"language", "lang", "value">>, <<"max_rows", "maxRows", "value">> >>
      [] m = "wikipedia_bounding_box" ->
            << <<"north", "north", "value">>, <<"east", "east", "value">>,
               <<"south", "south", "value">>, <<"west", "west", "value">>,
               <<"language", "lang", "value">>, <<"max_rows", "maxRows", "value">> >>
      [] m = "earthquakes_bounding_box" ->
            << <<"north", "north", "value">>, <<"east", "east", "value">>,
               <<"south", "south", "value">>, <<"west", "west", "value">>,
               <<"min_magnitude", "minMagnitude", "value">>,
               <<"max_rows", "maxRows", "value">>, <<"up_to_date", "date", "date">> >>
      [] m = "weather_station_bounding_box" ->
            << <<"north", "north", "value">>, <<"east", "east", "value">>,
               <<"south", "south", "value">>, <<"west", "west", "value">>,
               <<"max_rows", "maxRows", "value">> >>
      [] m = "weather_station_icao" -> << <<"icao", "ICAO", "value">> >>
      [] m = "weather_station_find_nearby" ->
            << <<"latitude", "lat", "value">>, <<"longitude", "lng", "value">>,
               <<"radius", "radius", "value">> >>
      [] m = "country_info" ->
            << <<"country", "country", "items">>, <<"language", "lang", "value">> >>
      [] m = "ocean" ->
            << <<"latitude", "lat", "value">>, <<"longitude", "lng", "value">>,
               <<"radius", "radius", "value">> >>
      [] m = "timezone" ->
            << <<"latitude", "lat", "value">>, <<"longitude", "lng", "value">>,
               <<"radius", "radius", "value">>, <<"language", "lang", "value">>,
               <<"sunrise_sunset_date", "date", "date">> >>

\* the concatenation of a sequence of sequences
RECURSIVE Flatten(_)
Flatten(ss) == IF ss = <<>> THEN <<>> ELSE Head(ss) \o Flatten(Tail(ss))

\* one pair (key, str(value)) for a value that is not None, no pair for None
OnePairPerArgument(key, value) ==
    IF value = None THEN <<>> ELSE << <<key, py_str(value)>> >>

\* as OnePairPerArgument, but a list gives one pair per item, in the list's
\* order, and a date (or datetime) gives its date as YYYY-MM-DD
PairsOfArgument(key, value, kind) ==
    IF kind = "items" /\ value.type = "list"
    THEN [i \in 1..Len(value.items) |-> <<key, py_str(value.items[i])>>]
    ELSE IF kind = "date" /\ value.type \in {"date", "datetime"}
    THEN << <<key, strftime_Ymd(value)>> >>
    ELSE OnePairPerArgument(key, value)

UsernamePair == << <<Lit["username"], instance.username>> >>

\* C4 as stated: the pair list of a URL returned by a method other than search
\* is (username, username) followed, in the method's order, by exactly one pair
\* (key, str(value)) for every argument that is not None.
C4_OnePairPerArgument ==
    (ReturnedUrl /\ method # "search") =>
        LET ps == QueryParameters(method)
        IN  result.keys = UsernamePair \o
                Flatten([i \in 1..Len(ps) |->
                            OnePairPerArgument(Lit[ps[i][2]], args[ps[i][1]])])

\* C4 as amended: the same, except that country_info adds one country pair per
\* item of a list, and that a date given as up_to_date or sunrise_sunset_date is
\* added as its YYYY-MM-DD text; falsy values other than None are kept.
C4_PairsInOrder ==
    (ReturnedUrl /\ method # "search") =>
        LET ps == QueryParameters(method)
        IN  /\ result.keys = UsernamePair \o
                  Flatten([i \in 1..Len(ps) |->
                              PairsOfArgument(Lit[ps[i][2]], args[ps[i][1]], ps[i][3])])
            /\ result.url = SubSeq(result.url, 1, Len(result.url) - Len(urlencode(result.keys)))
                                \o urlencode(result.keys)

\* C4 witness: country_info returned a URL for a list of two countries, one
\* country pair each
C4_Witness ==
    /\ Returned("country_info")
    /\ args.country = PyList(<<PyStr(Lit["DE"]), PyStr(Lit["NL"])>>)
    /\ Positions(result.keys, Lit["country"]) = {2, 3}

SearchTerms == <<args.q, args.name, args.name_equals>>
Edges == <<args.north, args.east, args.south, args.west>>
EdgeKeys == {Lit["north"], Lit["east"], Lit["south"], Lit["west"]}
\* at least one edge of the bounding box is given, and not all four
PartialBox == None_in(Edges) /\ (\E i \in 1..4 : Edges[i] # None)

\* C5: search with q, name and name_equals all None raises AssertionError and
\* returns no URL; search with at least one of them not None returns a URL.
C5_SearchTermRequired ==
    Called("search") =>
        /\ (\A i \in 1..3 : SearchTerms[i] = None) =>
              result.exc = "AssertionError" /\ result.url = NoUrl
        /\ (\E i \in 1..3 : SearchTerms[i] # None) => result.exc = "none"

\* C6 as stated: search given at least one but not all of north, east, south
\* and west is rejected and returns no URL.
C6_PartialBoxRejected ==
    (Called("search") /\ PartialBox) => result.exc # "none" /\ result.url = NoUrl

\* C6 as amended: search uses the bounding box only as a whole.  Given at least
\* one but not all of the edges it is not rejected for that: it ends as the same
\* call without any edge ends, and a URL it returns has none of the four keys; a
\* URL returned for all four edges has the four keys.
C6_PartialBoxIgnored ==
    Called("search") =>
        /\ PartialBox =>
              LET without == search(instance, [args EXCEPT !.north = None, !.east = None,
                                                           !.south = None, !.west = None])
              IN  /\ result.exc = without.exc
                  /\ result.url = without.url
                  /\ \A k \in EdgeKeys : ~HasKey(result.keys, k)
        /\ (result.exc = "none" /\ ~None_in(Edges)) =>
              \A k \in EdgeKeys : HasKey(result.keys, k)

\* C6 witness: search returned a URL for a bounding box of which only some
\* edges were given
C6_Witness == Returned("search") /\ PartialBox /\ result.url # NoUrl

BoundingBoxMethods ==
    {"cities_and_place_names_bounding_box", "wikipedia_bounding_box",
     "earthquakes_bounding_box", "weather_station_bounding_box"}

\* C7: each of the four bounding-box methods returns a URL if and only if none
\* of north, east, south, west is None (an edge equal to 0 is accepted), and the
\* URL carries north, east, south, west in that order right after username.
C7_BoundingBoxRequired ==
    (pc = "returned" /\ method \in BoundingBoxMethods /\ DocumentedFormat) =>
        /\ result.exc = "none" <=> ~None_in(Edges)
        /\ result.exc = "none" =>
              /\ Len(result.keys) >= 5
              /\ result.keys[1][1] = Lit["username"]
              /\ result.keys[2] = <<Lit["north"], py_str(args.north)>>
              /\ result.keys[3] = <<Lit["east"], py_str(args.east)>>
              /\ result.keys[4] = <<Lit["south"], py_str(args.south)>>
              /\ result.keys[5] = <<Lit["west"], py_str(args.west)>>

CoordinateMethods == {"ocean", "timezone", "weather_station_find_nearby"}

\* C8: ocean, timezone and weather_station_find_nearby called with latitude
\* None or longitude None raise AssertionError, and every URL they return has
\* a lat pair and a lng pair.
C8_LatitudeLongitudeRequired ==
    (pc = "returned" /\ method \in CoordinateMethods /\ DocumentedFormat) =>
        /\ (args.latitude = None \/ args.longitude = None) =>
              result.exc = "AssertionError"
        /\ result.exc = "none" =>
              HasKey(result.keys, Lit["lat"]) /\ HasKey(result.keys, Lit["lng"])

\* C9: every URL wikipedia_find_nearby returns has either lat and lng and no
\* postalcode, or postalcode and neither lat nor lng; a call with postal_code
\* together with latitude or longitude, or with neither alternative complete,
\* raises AssertionError.
C9_CoordinatesOrPostalCode ==
    (Called("wikipedia_find_nearby") /\ DocumentedFormat) =>
        LET lat == HasKey(result.keys, Lit["lat"])
            lng == HasKey(result.keys, Lit["lng"])
            postalcode == HasKey(result.keys, Lit["postalcode"])
        IN  /\ result.exc = "none" =>
                  \/ lat /\ lng /\ ~postalcode
                  \/ postalcode /\ ~lat /\ ~lng
            /\ (args.postal_code # None /\ (args.latitude # None \/ args.longitude # None)) =>
                  result.exc = "AssertionError"
            /\ (args.postal_code = None /\ (args.latitude = None \/ args.longitude = None)) =>
                  result.exc = "AssertionError"

\* C10: every URL neighbours returns has exactly one of the keys geonameId and
\* country; a call with both geoname_id and country not None, or with both
\* None, raises AssertionError (0 and "" count as given).
C10_GeonameIdOrCountry ==
    (Called("neighbours") /\ DocumentedFormat) =>
        /\ result.exc = "none" =>
              HasKey(result.keys, Lit["geonameId"]) # HasKey(result.keys, Lit["country"])
        /\ (args.geoname_id # None /\ args.country # None) => result.exc = "AssertionError"
        /\ (args.geoname_id = None /\ args.country = None) => result.exc = "AssertionError"

\* the end point of every endpoint method other than search
EndPoint(m) ==
    CASE m = "cities_and_place_names_bounding_box" -> Lit["cities"]
      [] m = "children" -> Lit["children"]
      [] m = "neighbours" -> Lit["neighbours"]
      [] m = "hierarchy" -> Lit["hierarchy"]
      [] m = "siblings" -> Lit["siblings"]
      [] m = "postal_code_to_place_name" -> Lit["postalCodeLookup"]
      [] m = "wikipedia_find_nearby" -> Lit["findNearbyWikipedia"]
      [] m = "wikipedia_fulltext_search" -> Lit["wikipediaSearch"]
      [] m = "wikipedia_bounding_box" -> Lit["wikipediaBoundingBox"]
      [] m = "earthquakes_bounding_box" -> Lit["earthquakes"]
      [] m = "weather_station_bounding_box" -> Lit["weather"]
      [] m = "weather_station_icao" -> Lit["weatherIcao"]
      [] m = "weather_station_find_nearby" -> Lit["findNearByWeather"]
      [] m = "country_info" -> Lit["countryInfo"]
      [] m = "ocean" -> Lit["ocean"]
      [] m = "timezone" -> Lit["timezone"]

\* the position of the first "?" of a URL (0 if it has none)
QuestionMark(url) ==
    IF \E i \in 1..Len(url) : url[i] = "?"
    THEN CHOOSE i \in 1..Len(url) : url[i] = "?" /\ \A j \in 1..(i - 1) : url[j] # "?"
    ELSE 0

\* what follows the base URL in a URL, up to and including its first "?"
PathOf(url) ==
    LET base == IF Secure(url) THEN Lit["https://secure.geonames.org/"]
                ELSE Lit["http://api.geonames.org/"]
    IN  SubSeq(url, Len(base) + 1, QuestionMark(url))

\* the format that selects the path of the call: output_format in upper case
\* if it is given, default_output_format otherwise
EffectiveFormat ==
    IF args.output_format # None THEN upper(args.output_format.s)
    ELSE instance.default_output_format

\* the path C11 describes for the call
ExpectedPath ==
    EndPoint(method)
        \o (IF EffectiveFormat = Lit["JSON"] THEN Lit["JSON"]
            ELSE IF method = "country_info" /\ EffectiveFormat = Lit["CSV"] THEN Lit["CSV"]
            ELSE <<>>)
        \o Lit["?"]

\* the call would return a URL if it were made without output_format
ReturnsWithoutFormat ==
    Invoke(method, instance, [args EXCEPT !.output_format = None]).exc = "none"

\* C11: for every endpoint method other than search the per-call output_format
\* overwrites default_output_format when the path is selected: a call (one that
\* its method does not reject) returns a URL whose path is the end point plus
\* "JSON" exactly when the effective format is JSON, "countryInfoCSV" exactly
\* when country_info is called with CSV, and the bare end point otherwise,
\* followed by "?".
C11_OutputFormatSelectsPath ==
    (pc = "returned" /\ method \in EndpointMethods \ {"search"} /\ ReturnsWithoutFormat) =>
        /\ result.exc = "none"
        /\ PathOf(result.url) = ExpectedPath

\* ------------------------------------------------ decoding a query string

\* the characters of the model that quote_plus escapes
Escaped == {" ", "%", "&", "+", "/", ":", "=", "?", "ü"}
\* what an undecodable byte sequence decodes to
ReplacementCharacter == "U+FFFD"

\* chr(n): the character whose code point is n
chr(n) ==
    IF \E c \in Escaped : ord(c) = n THEN CHOOSE c \in Escaped : ord(c) = n
    ELSE ReplacementCharacter

\* int(h, 16) of one hexadecimal digit
HexValue(h) == (CHOOSE i \in 1..Len(HexDigits) : HexDigits[i] = h) - 1

\* s starts with a "%XX" escape
IsEscape(s) ==
    Len(s) >= 3 /\ s[1] = "%" /\ s[2] \in Range(HexDigits) /\ s[3] \in Range(HexDigits)
\* the byte a "%XX" escape at the start of s stands for
EscapedByte(s) == 16 * HexValue(s[2]) + HexValue(s[3])

\* unquote_plus(s): "+" is a space, a run of %XX escapes is the UTF-8 encoding
\* of the characters it decodes to, every other character stands for itself
RECURSIVE unquote_plus(_)
unquote_plus(s) ==
    IF s = <<>> THEN <<>>
    ELSE IF s[1] = "+" THEN <<" ">> \o unquote_plus(Tail(s))
    ELSE IF ~IsEscape(s) THEN <<s[1]>> \o unquote_plus(Tail(s))
    ELSE LET b1 == EscapedByte(s)
             rest == SubSeq(s, 4, Len(s))
         IN  IF b1 < 128 THEN <<chr(b1)>> \o unquote_plus(rest)
             ELSE IF b1 >= 192 /\ b1 < 224 /\ IsEscape(rest)
                     /\ EscapedByte(rest) >= 128 /\ EscapedByte(rest) < 192
                  THEN <<chr((b1 - 192) * 64 + (EscapedByte(rest) - 128))>>
                           \o unquote_plus(SubSeq(rest, 4, Len(rest)))
             ELSE <<ReplacementCharacter>> \o unquote_plus(rest)

\* the position of the first sep in s (0 if it has none)
Find(s, sep) ==
    IF \E i \in 1..Len(s) : s[i] = sep
    THEN CHOOSE i \in 1..Len(s) : s[i] = sep /\ \A j \in 1..(i - 1) : s[j] # sep
    ELSE 0

\* s.split(sep)
RECURSIVE Split(_, _)
Split(s, sep) ==
    IF Find(s, sep) = 0 THEN <<s>>
    ELSE <<SubSeq(s, 1, Find(s, sep) - 1)>> \o Split(SubSeq(s, Find(s, sep) + 1, Len(s)), sep)

\* one "key=value" field decoded to a pair; a field without "=" has the value ''
DecodeField(f) ==
    IF Find(f, "=") = 0 THEN <<unquote_plus(f), <<>>>>
    ELSE <<unquote_plus(SubSeq(f, 1, Find(f, "=") - 1)),
           unquote_plus(SubSeq(f, Find(f, "=") + 1, Len(f)))>>

\* the fields of fs that are not empty, decoded, in order
RECURSIVE DecodeFields(_)
DecodeFields(fs) ==
    IF fs = <<>> THEN <<>>
    ELSE (IF Head(fs) = <<>> THEN <<>> ELSE <<DecodeField(Head(fs))>>)
             \o DecodeFields(Tail(fs))

\* the decoding of a query string: the ordered list of (key, value) pairs,
\* values that are empty included (parse_qsl(qs, keep_blank_values=True))
parse_qsl(qs) == DecodeFields(Split(qs, "&"))

\* what follows the first "?" of a URL
QueryString(url) == SubSeq(url, QuestionMark(url) + 1, Len(url))

\* C12: every returned URL is fully encoded: decoding its query string yields
\* exactly the ordered list of pairs the method assembled (same number of
\* pairs, same keys, same values), whatever the argument values contain.
C12_QueryDecodesToPairs ==
    ReturnedUrl => parse_qsl(QueryString(result.url)) = result.keys

\* a URL was returned for texts with "&", "=", "?" and a non-ASCII character
C12_Witness ==
    /\ Returned("wikipedia_fulltext_search")
    /\ args.q = PyStr(Lit["Düsseldorf"])
    /\ args.title = PyStr(Lit["x&y=z?"])
    /\ parse_qsl(QueryString(result.url)) = result.keys
    /\ \E i \in 1..Len(result.keys) : result.keys[i] = <<Lit["title"], Lit["x&y=z?"]>>

\* the configuration the constructor was called with is valid: username is a
\* str, secure is a bool and default_output_format is exactly "JSON" or "XML"
ValidConfiguration ==
    /\ init_args.username.type = "str"
    /\ init_args.secure.type = "bool"
    /\ init_args.default_output_format.type = "str"
    /\ init_args.default_output_format.s \in {Lit["JSON"], Lit["XML"]}

\* the constructor has run
Constructed == pc # "new"

\* C13: the constructor fails with an AssertionError when username is not a
\* str, when secure is not a bool, or when default_output_format is not exactly
\* "JSON" or "XML", and constructs the instance otherwise; hence in every
\* constructed instance, also after any sequence of endpoint calls on it,
\* default_output_format is "JSON" or "XML" and _base_url is one of the two
\* fixed base URLs.
C13_ConstructorValidates ==
    Constructed =>
        /\ ~ValidConfiguration =>
              /\ pc = "failed"
              /\ instance = NoInstance
              /\ result.exc = "AssertionError"
        /\ ValidConfiguration =>
              /\ pc \in {"idle", "returned"}
              /\ instance.default_output_format \in {Lit["JSON"], Lit["XML"]}
              /\ instance._base_url \in {Lit["https://secure.geonames.org/"],
                                         Lit["http://api.geonames.org/"]}

\* the constructor rejected default_output_format "json", given with a str
\* username and a bool secure
C13_Witness ==
    /\ pc = "failed"
    /\ method = "__init__"
    /\ result.exc = "AssertionError"
    /\ init_args.username.type = "str"
    /\ init_args.secure.type = "bool"
    /\ init_args.default_output_format = PyStr(Lit["json"])

====
